---- MODULE Spec2Model ----
(***************************************************************************)
(* Model of hyperbyte-plot: the terminal UI's panel/focus manager          *)
(* (internal/ui/ui.go), the refresh orchestrator (internal/app/app.go),    *)
(* and startup: main, app.New, configuration loading and the backend       *)
(* factory.                                                                *)
(* Indices are 0-based as in the Go source: panels and histories are       *)
(* functions over 0..n-1.                                                  *)
(***************************************************************************)
EXTENDS Integers, Sequences, FiniteSets, TLC

\* ------------------------------------------------------------------ bounds
MaxQueries == 5        \* largest number of configured queries
MaxDay     == 1        \* timestamps fall on days 0..MaxDay
MaxSec     == 1        \* ... at seconds 0..MaxSec of the day
MaxValue   == 1        \* point values are 1..MaxValue
MaxPoints  == 2        \* longest series handed to an update
MaxCalls   == 2        \* update calls per run of the data specification
NavCalls   == 1        \* update calls per run of the navigation specification
MaxDataQueries == 2    \* largest number of queries in the data specification
MaxAppQueries  == 2    \* largest number of queries in the application specification
MaxCycles  == 2        \* refresh cycles per run of the application
MaxClock   == 5        \* seconds of run time of the application
MaxBootQueries == 2    \* most queries in a configuration file of the startup specification
MaxRenderValue == 2     \* values of the points given to the renderer: 1..MaxRenderValue

\* --------------------------------------------------------- program constants
SecondsPerDay == 86400 \* the layout "15:04:05" prints the time of day only
WindowSize    == 3     \* panels shown at once when there are 3 or more queries
TickInterval  == 5     \* seconds between two ticks of the update ticker
CycleTimeout  == 3     \* seconds until the context of a refresh cycle expires

\* ------------------------------------------------------------------- values
NoErr  == "nil"                          \* a nil error
Errors == {"e1", "e2"}                   \* the non-nil errors of the model

Times  == {d * SecondsPerDay + s : d \in 0..MaxDay, s \in 0..MaxSec}
Points == [Timestamp : Times, Value : 1..MaxValue]

SeqsUpTo(S, n) == UNION {[1..k -> S] : k \in 0..n}

\* *backend.TimeSeriesResult: a nil pointer, or a struct holding Points
NilSeries      == [isNil |-> TRUE,  Points |-> <<>>]
MkSeries(pts)  == [isNil |-> FALSE, Points |-> pts]
SeriesInputs   == {NilSeries} \cup {MkSeries(p) : p \in SeqsUpTo(Points, MaxPoints)}

\* the few arguments of the update calls of the navigation specification
NavPoints      == {[Timestamp |-> 0, Value |-> 1]}
NavSeries      == {NilSeries, MkSeries(<<>>)} \cup {MkSeries(<<p>>) : p \in NavPoints}
NavErrors      == {"e1"}

len(f) == Cardinality(DOMAIN f)

\* time.Time.Format("15:04:05"): hour, minute and second of the day; the date is
\* not printed
Format(t) == t % SecondsPerDay

\* the texts a panel can show
TextInit        == [kind |-> "Initializing...", err |-> NoErr, current |-> 0,
                    from |-> 0, to |-> 0, values |-> <<>>]
TextNoData      == [kind |-> "No data available", err |-> NoErr, current |-> 0,
                    from |-> 0, to |-> 0, values |-> <<>>]
TextError(e)    == [kind |-> "Error", err |-> e, current |-> 0,
                    from |-> 0, to |-> 0, values |-> <<>>]
TextGraph(sorted) ==
    [kind |-> "Graph", err |-> NoErr,
     current |-> sorted[Len(sorted)].Value,
     from |-> Format(sorted[1].Timestamp),
     to |-> Format(sorted[Len(sorted)].Timestamp),
     values |-> [k \in 1..Len(sorted) |-> sorted[k].Value]]

\* the texts of the time-range footer
FooterInitial   == [kind |-> "Time Range: Waiting for data...", from |-> 0, to |-> 0]
FooterWaiting   == [kind |-> "[gray]Time Range: Waiting for data...[white]", from |-> 0, to |-> 0]
FooterRange(a, b) == [kind |-> "Time Range", from |-> Format(a), to |-> Format(b)]

\* -------------------------------------------------------------------- state
VARIABLES
    panels,         \* t.panels: the text of each panel
    histories,      \* t.histories: per query [TimeSeries, LastError]
    focusIndex,     \* t.focusIndex
    scrollOffset,   \* t.scrollOffset
    visiblePanels,  \* t.visiblePanels
    scrollView,     \* items of t.scrollView: <<[panel, focus]>>
    appFocus,       \* the panel given to t.app.SetFocus, -1 before any
    timeRange,      \* text of t.timeRange
    updates,        \* functions queued with QueueUpdateDraw, oldest first
    panicked,       \* a run-time panic (index out of range, nil dereference)
    last,           \* the last operation called and its arguments
    run,            \* focusNext calls since the last focusPrev, and the focus then
    budget,         \* number of update calls the run may still make
    appPc,          \* the application: "created", "started"
    now,            \* seconds since the application was created
    ctxDone,        \* a.ctx is cancelled
    ticker,         \* a.updateTicker: [running, pending]; pending: a tick waits in C
    runners,        \* the goroutines that run updateMetrics: [loop, init], each [pc, cycle]
    cycles,         \* the context of each refresh cycle: <<[start, cancelled]>>
    tasks,          \* the per-query goroutines: <<[cycle, idx, expr, pc, afterErr]>>, pc
                    \* "querying" or "done"; afterErr records that the query's
                    \* last outcome was an error when the goroutine was started
    wg,             \* counter of a.wg
    uiState,        \* the UI loop: "idle", "running", "stopped"
    stopPc,         \* each caller of Stop: "none", "waiting" (in a.wg.Wait), "done"
    backendClosed,  \* number of calls of a.backend.Close
    honorsCtx,      \* the backend's QueryTimeSeries observes its context
    boot            \* main and New: [pc, file, input, cfg, backend, connects, err,
                    \* ui, exit], see InitBoot

uiVars == <<panels, histories, focusIndex, scrollOffset, visiblePanels,
            scrollView, appFocus, timeRange, updates, panicked>>
appVars == <<appPc, now, ctxDone, ticker, runners, cycles, tasks, wg, uiState,
             stopPc, backendClosed, honorsCtx, boot>>
vars == <<uiVars, last, run, budget, appVars>>

Op(name, i, s, e) == [op |-> name, index |-> i, series |-> s, err |-> e]

\* ------------------------------------------------------- ui.go: scroll view
\* a bug: the window is not capped, every panel is shown at once
visibleForUncapped(n) == n

\* setupUI, lines 81-88
visibleFor(n) ==
    IF n <= 2 THEN n ELSE IF n = 3 THEN 3 ELSE WindowSize

\* a bug: the first visible panel is added as the focused item, whichever panel
\* has the focus
updateScrollViewFocusFirst(n, vis, off, focus) ==
    IF n = 0
    THEN [scrollOffset |-> off, scrollView |-> <<>>, panic |-> FALSE]
    ELSE LET maxOffset == IF n - vis < 0 THEN 0 ELSE n - vis
             off1      == IF off > maxOffset THEN maxOffset ELSE off
             off2      == IF off1 < 0 THEN 0 ELSE off1
             endIndex  == IF off2 + vis > n THEN n ELSE off2 + vis
         IN  [scrollOffset |-> off2,
              scrollView   |-> [k \in 1..(endIndex - off2) |->
                                  [panel |-> off2 + k - 1, focus |-> (k = 1)]],
              panic        |-> \E i \in off2..(endIndex - 1) : i < 0 \/ i >= n]

\* updateScrollView: clamp the offset and list the visible panels
updateScrollView(n, vis, off, focus) ==
    IF n = 0
    THEN [scrollOffset |-> off, scrollView |-> <<>>, panic |-> FALSE]
    ELSE LET maxOffset == IF n - vis < 0 THEN 0 ELSE n - vis
             off1      == IF off > maxOffset THEN maxOffset ELSE off
             off2      == IF off1 < 0 THEN 0 ELSE off1
             endIndex  == IF off2 + vis > n THEN n ELSE off2 + vis
         IN  [scrollOffset |-> off2,
              scrollView   |-> [k \in 1..(endIndex - off2) |->
                                  [panel |-> off2 + k - 1,
                                   focus |-> (off2 + k - 1 = focus)]],
              panic        |-> \E i \in off2..(endIndex - 1) : i < 0 \/ i >= n]

\* a bug: scrolling left puts the focus at the right edge of the window
scrollToShowFocusPageLeft(n, vis, off, focus, sv) ==
    IF n = 0
    THEN [scrollOffset |-> off, scrollView |-> sv, panic |-> FALSE]
    ELSE LET visibleStart == off
             visibleEnd   == off + vis - 1
             offA == IF focus > visibleEnd THEN focus - vis + 1 ELSE off
             offB == IF focus < visibleStart THEN focus - vis + 1 ELSE offA
         IN  updateScrollView(n, vis, offB, focus)

\* a bug: scrolling right puts the focus one place past the right edge
scrollToShowFocusShort(n, vis, off, focus, sv) ==
    IF n = 0
    THEN [scrollOffset |-> off, scrollView |-> sv, panic |-> FALSE]
    ELSE LET visibleStart == off
             visibleEnd   == off + vis - 1
             offA == IF focus > visibleEnd THEN focus - vis ELSE off
             offB == IF focus < visibleStart THEN focus ELSE offA
         IN  updateScrollView(n, vis, offB, focus)

\* scrollToShowFocus: move the offset so that the focus is visible
scrollToShowFocus(n, vis, off, focus, sv) ==
    IF n = 0
    THEN [scrollOffset |-> off, scrollView |-> sv, panic |-> FALSE]
    ELSE LET visibleStart == off
             visibleEnd   == off + vis - 1
             offA == IF focus > visibleEnd THEN focus - vis + 1 ELSE off
             offB == IF focus < visibleStart THEN focus ELSE offA
         IN  updateScrollView(n, vis, offB, focus)

\* updateFocus: give the application focus to the focused panel if it is visible
updateFocus(n, vis, off, focus, cur) ==
    IF n = 0
    THEN [appFocus |-> cur, panic |-> FALSE]
    ELSE LET visibleStart == off
             visibleEnd   == off + vis - 1
         IN  IF focus >= visibleStart /\ focus <= visibleEnd
             THEN [appFocus |-> focus, panic |-> focus < 0 \/ focus >= n]
             ELSE [appFocus |-> cur, panic |-> FALSE]

\* ------------------------------------------------------- ui.go: navigation
\* Go's % truncates toward zero: the result has the sign of the dividend
goMod(a, n) == IF a >= 0 THEN a % n ELSE -((-a) % n)

\* a bug: the cycle is one too long
nextIndexOffByOne(f, n) == goMod(f + 1, n + 1)

\* a bug: the length is not added before the remainder is taken
prevIndexNoWrap(f, n) == goMod(f - 1, n)

\* the focus index after focusNext / focusPrev on n > 0 panels (lines 196, 205)
nextIndex(f, n) == goMod(f + 1, n)
prevIndex(f, n) == goMod(f - 1 + n, n)

\* a bug: the focused panel is scrolled to the left edge, and the scroll view is
\* filled from there, without scrollToShowFocus and its clamp
MoveFocusToLeftEdge(f) ==
    LET n == len(panels)
        u == updateFocus(n, visiblePanels, f, f, appFocus)
    IN  /\ focusIndex'   = f
        /\ scrollOffset' = f
        /\ scrollView'   = [k \in 1..visiblePanels |-> [panel |-> f + k - 1, focus |-> k = 1]]
        /\ appFocus'     = u.appFocus
        /\ panicked'     = u.panic
        /\ UNCHANGED <<panels, histories, visiblePanels, timeRange, updates>>

\* the body shared by focusNext and focusPrev once the new index is known
\* (lines 196-198, 205-207)
MoveFocus(f) ==
    LET n == len(panels)
        s == scrollToShowFocus(n, visiblePanels, scrollOffset, f, scrollView)
        u == updateFocus(n, visiblePanels, s.scrollOffset, f, appFocus)
    IN  /\ focusIndex'   = f
        /\ scrollOffset' = s.scrollOffset
        /\ scrollView'   = s.scrollView
        /\ appFocus'     = u.appFocus
        /\ panicked'     = (s.panic \/ u.panic)
        /\ UNCHANGED <<panels, histories, visiblePanels, timeRange, updates>>

\* a bug: the check for an empty panel list is missing, and the remainder by
\* zero panics
focusNextUnguarded ==
    /\ ~panicked
    /\ IF len(panels) > 0
       THEN MoveFocus(nextIndex(focusIndex, len(panels)))
       ELSE /\ panicked' = TRUE
            /\ UNCHANGED <<panels, histories, focusIndex, scrollOffset, visiblePanels,
                           scrollView, appFocus, timeRange, updates>>
    /\ last' = Op("focusNext", 0, NilSeries, NoErr)
    /\ run'  = IF run.count >= len(panels)
               THEN [start |-> focusIndex, count |-> 1]
               ELSE [run EXCEPT !.count = @ + 1]
    /\ UNCHANGED <<budget, appVars>>

focusNext ==
    /\ ~panicked
    /\ IF len(panels) > 0
       THEN MoveFocus(nextIndex(focusIndex, len(panels)))
       ELSE UNCHANGED uiVars
    /\ last' = Op("focusNext", 0, NilSeries, NoErr)
    /\ run'  = IF run.count >= len(panels)
               THEN [start |-> focusIndex, count |-> 1]
               ELSE [run EXCEPT !.count = @ + 1]
    /\ UNCHANGED <<budget, appVars>>

focusPrev ==
    /\ ~panicked
    /\ IF len(panels) > 0
       THEN MoveFocus(prevIndex(focusIndex, len(panels)))
       ELSE UNCHANGED uiVars
    /\ last' = Op("focusPrev", 0, NilSeries, NoErr)
    /\ run'  = [start |-> focusIndex', count |-> 0]
    /\ UNCHANGED <<budget, appVars>>

\* ------------------------------------------------- ui.go: time-range footer
\* time.Time.Before / time.Time.After on the instants
Before(a, b) == a < b
After(a, b)  == a > b

\* the points visited by the two nested loops of updateTimeRange, in order:
\* histories in index order, skipping nil and empty series
RECURSIVE visitedPoints(_, _)
visitedPoints(h, i) ==
    IF i >= len(h) THEN <<>>
    ELSE (IF ~h[i].TimeSeries.isNil /\ Len(h[i].TimeSeries.Points) > 0
          THEN h[i].TimeSeries.Points ELSE <<>>) \o visitedPoints(h, i + 1)

\* a bug: the latest time is compared the wrong way round
rangeStepWrongLatest(acc, ts) ==
    IF ~acc.hasData
    THEN [hasData |-> TRUE, earliest |-> ts, latest |-> ts]
    ELSE [hasData  |-> TRUE,
          earliest |-> IF Before(ts, acc.earliest) THEN ts ELSE acc.earliest,
          latest   |-> IF Before(ts, acc.latest) THEN ts ELSE acc.latest]

\* one iteration of the inner loop (lines 249-260)
rangeStep(acc, ts) ==
    IF ~acc.hasData
    THEN [hasData |-> TRUE, earliest |-> ts, latest |-> ts]
    ELSE [hasData  |-> TRUE,
          earliest |-> IF Before(ts, acc.earliest) THEN ts ELSE acc.earliest,
          latest   |-> IF After(ts, acc.latest) THEN ts ELSE acc.latest]

RECURSIVE rangeFold(_, _, _)
rangeFold(pts, k, acc) ==
    IF k > Len(pts) THEN acc
    ELSE rangeFold(pts, k + 1, rangeStep(acc, pts[k].Timestamp))

\* updateTimeRange: the footer text computed from the stored series
updateTimeRange(h) ==
    LET acc == rangeFold(visitedPoints(h, 0), 1,
                         [hasData |-> FALSE, earliest |-> 0, latest |-> 0])
    IN  IF acc.hasData THEN FooterRange(acc.earliest, acc.latest)
        ELSE FooterWaiting

\* ---------------------------------------------------- ui.go: panel rendering
\* sort.Slice by Timestamp.Before on a copy: the sort is not stable, so every
\* ascending arrangement of the points is a possible result
sortedCopies(pts) ==
    {q \in {[k \in 1..Len(pts) |-> pts[p[k]]] : p \in Permutations(1..Len(pts))} :
        \A k \in 1..(Len(q) - 1) : ~Before(q[k + 1].Timestamp, q[k].Timestamp)}

\* a bug: the points are plotted in arrival order, without the sort
renderTimeSeriesGraphUnsorted(hist) ==
    IF hist.TimeSeries.isNil
    THEN {[panic |-> TRUE, text |-> TextInit]}
    ELSE IF Len(hist.TimeSeries.Points) = 0
    THEN {[panic |-> FALSE, text |-> TextNoData]}
    ELSE {[panic |-> FALSE, text |-> TextGraph(hist.TimeSeries.Points)]}

\* a bug: no check for an empty series, the plotting step reads values[0] of
\* zero values
renderTimeSeriesGraphUnguarded(hist) ==
    IF hist.TimeSeries.isNil \/ Len(hist.TimeSeries.Points) = 0
    THEN {[panic |-> TRUE, text |-> TextInit]}
    ELSE {[panic |-> FALSE, text |-> TextGraph(q)] :
             q \in sortedCopies(hist.TimeSeries.Points)}

\* renderTimeSeriesGraph: the possible outcomes for one stored history
renderTimeSeriesGraph(hist) ==
    IF hist.TimeSeries.isNil
    THEN {[panic |-> TRUE, text |-> TextInit]}
    ELSE IF Len(hist.TimeSeries.Points) = 0
    THEN {[panic |-> FALSE, text |-> TextNoData]}
    ELSE {[panic |-> FALSE, text |-> TextGraph(q)] :
             q \in sortedCopies(hist.TimeSeries.Points)}

\* a bug: drawing an error discards the series stored for the query
DrawErrorDiscards ==
    /\ ~panicked
    /\ updates # <<>>
    /\ LET u == Head(updates)
       IN  /\ IF u.err # NoErr
              THEN /\ panels'    = [panels EXCEPT ![u.index] = TextError(u.err)]
                   /\ histories' = [histories EXCEPT
                                        ![u.index].TimeSeries = MkSeries(<<>>)]
                   /\ timeRange' = updateTimeRange(histories')
                   /\ panicked'  = FALSE
              ELSE /\ \E r \in renderTimeSeriesGraph(histories[u.index]) :
                        IF r.panic
                        THEN panicked' = TRUE /\ UNCHANGED <<panels, timeRange>>
                        ELSE /\ panels'    = [panels EXCEPT ![u.index] = r.text]
                             /\ timeRange' = updateTimeRange(histories)
                             /\ panicked'  = FALSE
                   /\ UNCHANGED histories
           /\ last' = Op("Draw", u.index, NilSeries, u.err)
    /\ updates' = Tail(updates)
    /\ UNCHANGED <<focusIndex, scrollOffset, visiblePanels,
                   scrollView, appFocus, run, budget, appVars>>

\* the function UpdateTimeSeries queues (lines 293-303), run by the UI loop
Draw ==
    /\ ~panicked
    /\ updates # <<>>
    /\ LET u == Head(updates)
       IN  /\ IF u.err # NoErr
              THEN /\ panels'    = [panels EXCEPT ![u.index] = TextError(u.err)]
                   /\ timeRange' = updateTimeRange(histories)
                   /\ panicked'  = FALSE
              ELSE \E r \in renderTimeSeriesGraph(histories[u.index]) :
                   IF r.panic
                   THEN panicked' = TRUE /\ UNCHANGED <<panels, timeRange>>
                   ELSE /\ panels'    = [panels EXCEPT ![u.index] = r.text]
                        /\ timeRange' = updateTimeRange(histories)
                        /\ panicked'  = FALSE
           /\ last' = Op("Draw", u.index, NilSeries, u.err)
    /\ updates' = Tail(updates)
    /\ UNCHANGED <<histories, focusIndex, scrollOffset, visiblePanels,
                   scrollView, appFocus, run, budget, appVars>>

\* ------------------------------------------------------------ ui.go: updates
\* a bug: an error does not replace an error recorded earlier
storeResultKeepsFirstError(hist, timeSeries, err) ==
    IF err # NoErr
    THEN (IF hist.LastError = NoErr THEN [hist EXCEPT !.LastError = err] ELSE hist)
    ELSE [TimeSeries |-> timeSeries, LastError |-> NoErr]

\* a bug: the new points are appended to the stored ones
storeResultAppend(hist, timeSeries, err) ==
    IF err # NoErr
    THEN [hist EXCEPT !.LastError = err]
    ELSE [TimeSeries |-> IF timeSeries.isNil \/ hist.TimeSeries.isNil THEN timeSeries
                         ELSE MkSeries(hist.TimeSeries.Points \o timeSeries.Points),
          LastError  |-> NoErr]

\* a bug: an error stores the series handed in with it as well
storeResultClears(hist, timeSeries, err) ==
    IF err # NoErr
    THEN [TimeSeries |-> timeSeries, LastError |-> err]
    ELSE [TimeSeries |-> timeSeries, LastError |-> NoErr]

\* a bug: a successful result leaves the error of an earlier failure in place
storeResultKeepsError(hist, timeSeries, err) ==
    IF err # NoErr
    THEN [hist EXCEPT !.LastError = err]
    ELSE [hist EXCEPT !.TimeSeries = timeSeries]

\* the write to the data cell (lines 284-289)
storeResult(hist, timeSeries, err) ==
    IF err # NoErr
    THEN [hist EXCEPT !.LastError = err]
    ELSE [TimeSeries |-> timeSeries, LastError |-> NoErr]

\* a bug: a negative index is let through
outOfRangeUpperOnly(index, n) == index >= n

\* the index check of UpdateTimeSeries (line 279)
outOfRange(index, n) == index < 0 \/ index >= n

\* a bug: an update moves the focus to the panel it updates
UpdateTimeSeriesFocuses(index, timeSeries, err) ==
    IF outOfRange(index, len(histories))
    THEN UNCHANGED uiVars
    ELSE /\ histories' = [histories EXCEPT ![index] = storeResult(@, timeSeries, err)]
         /\ updates'   = Append(updates, [index |-> index, err |-> err])
         /\ focusIndex' = index
         /\ UNCHANGED <<panels, scrollOffset, visiblePanels,
                        scrollView, appFocus, timeRange, panicked>>

\* a bug: the calling goroutine writes the panel text itself instead of queueing
\* the write for the UI loop
UpdateTimeSeriesDirect(index, timeSeries, err) ==
    IF outOfRange(index, len(histories))
    THEN UNCHANGED uiVars
    ELSE /\ histories' = [histories EXCEPT ![index] = storeResult(@, timeSeries, err)]
         /\ panels'    = [panels EXCEPT ![index] =
                              IF err # NoErr THEN TextError(err) ELSE TextNoData]
         /\ UNCHANGED <<focusIndex, scrollOffset, visiblePanels, scrollView,
                        appFocus, timeRange, updates, panicked>>

\* UpdateTimeSeries; indexing t.histories outside its range panics
UpdateTimeSeries(index, timeSeries, err) ==
    IF outOfRange(index, len(histories))
    THEN UNCHANGED uiVars
    ELSE IF index \notin DOMAIN histories
    THEN /\ panicked' = TRUE
         /\ UNCHANGED <<panels, histories, focusIndex, scrollOffset, visiblePanels,
                        scrollView, appFocus, timeRange, updates>>
    ELSE /\ histories' = [histories EXCEPT ![index] = storeResult(@, timeSeries, err)]
         /\ updates'   = IF len(panels) > index
                         THEN Append(updates, [index |-> index, err |-> err])
                         ELSE updates
         /\ UNCHANGED <<panels, focusIndex, scrollOffset, visiblePanels,
                        scrollView, appFocus, timeRange, panicked>>

\* a bug: the error is dropped and the point is stored as a result
UpdateMetricDropsError(index, result, err) ==
    UpdateTimeSeries(index, MkSeries(<<result>>), NoErr)

\* UpdateMetric: the deprecated single-point entry
UpdateMetric(index, result, err) ==
    IF err # NoErr
    THEN UpdateTimeSeries(index, NilSeries, err)
    ELSE UpdateTimeSeries(index, MkSeries(<<result>>), NoErr)

\* a call of UpdateTimeSeries with arguments drawn from the given sets
CallUpdateTimeSeriesFrom(S, E) ==
    /\ ~panicked
    /\ budget > 0
    /\ \E i \in -1..len(panels), s \in S, e \in {NoErr} \cup E :
          /\ UpdateTimeSeries(i, s, e)
          /\ last' = Op("UpdateTimeSeries", i, s, e)
    /\ budget' = budget - 1
    /\ UNCHANGED <<run, appVars>>

\* a call of UpdateMetric with arguments drawn from the given sets
CallUpdateMetricFrom(P, E) ==
    /\ ~panicked
    /\ budget > 0
    /\ \E i \in -1..len(panels), p \in P, e \in {NoErr} \cup E :
          /\ UpdateMetric(i, p, e)
          /\ last' = Op("UpdateMetric", i, MkSeries(<<p>>), e)
    /\ budget' = budget - 1
    /\ UNCHANGED <<run, appVars>>

\* ------------------------------------------ config: loading and validation
\* an error value: the message, the backend identifier or query index it names,
\* and the prefixes added around it with %w, outermost first
NilError == [wraps |-> <<>>, msg |-> "nil", id |-> "", index |-> -1]
NewError(m, b, i) == [wraps |-> <<>>, msg |-> m, id |-> b, index |-> i]
Wrap(prefix, e) == [e EXCEPT !.wraps = <<prefix>> \o @]

\* the values of a string field of the configuration file: absent or set
FieldValues == {"", "v"}
\* the values of a URL field: absent, well formed, or one that does not parse
UrlValues   == {"", "u", "bad"}
\* the backend identifiers of the model: the supported ones and two others
BackendIds  == {"", "prometheus", "influxdb", "influxdb1", "mock",
                "unsupported", "Mock"}

EmptyConfig ==
    [Backend    |-> "",
     Prometheus |-> [URL |-> ""],
     InfluxDB   |-> [URL |-> "", Token |-> "", Org |-> "", Bucket |-> ""],
     InfluxDB1  |-> [URL |-> "", Database |-> ""],
     Queries    |-> <<>>]

QueryLists == SeqsUpTo([Name : FieldValues, Expr : FieldValues], MaxBootQueries)

\* the configurations a file can hold: a backend identifier, the section of
\* that backend (the other sections are left empty) and the queries q
ConfigsWith(q) ==
    {[EmptyConfig EXCEPT !.Backend = b, !.Queries = q, !.Prometheus = [URL |-> u]] :
        b \in {"", "prometheus"}, u \in UrlValues}
    \cup {[EmptyConfig EXCEPT !.Backend = "influxdb", !.Queries = q, !.InfluxDB = x] :
        x \in [URL : {"", "u"}, Token : FieldValues, Org : FieldValues,
               Bucket : FieldValues]}
    \cup {[EmptyConfig EXCEPT !.Backend = "influxdb1", !.Queries = q, !.InfluxDB1 = x] :
        x \in [URL : UrlValues, Database : FieldValues]}
    \cup {[EmptyConfig EXCEPT !.Backend = b, !.Queries = q] :
        b \in {"mock", "unsupported", "Mock"}}

ConfigInputs == UNION {ConfigsWith(q) : q \in QueryLists}

\* the check of the backend section in Validate (lines 892-917)
validateBackend(c) ==
    CASE c.Backend = "prometheus" ->
           IF c.Prometheus.URL = "" THEN NewError("prometheus.url is required", "", -1)
           ELSE NilError
      [] c.Backend = "influxdb" ->
           IF c.InfluxDB.URL = "" THEN NewError("influxdb.url is required", "", -1)
           ELSE IF c.InfluxDB.Token = "" THEN NewError("influxdb.token is required", "", -1)
           ELSE IF c.InfluxDB.Org = "" THEN NewError("influxdb.org is required", "", -1)
           ELSE IF c.InfluxDB.Bucket = "" THEN NewError("influxdb.bucket is required", "", -1)
           ELSE NilError
      [] c.Backend = "influxdb1" ->
           IF c.InfluxDB1.URL = "" THEN NewError("influxdb1.url is required", "", -1)
           ELSE IF c.InfluxDB1.Database = ""
           THEN NewError("influxdb1.database is required", "", -1)
           ELSE NilError
      [] c.Backend = "mock" -> NilError
      [] OTHER -> NewError("unsupported backend", c.Backend, -1)

\* the loop over the queries in Validate (lines 923-930), from position k (1-based
\* here, the error names the 0-based index)
RECURSIVE validateQueries(_, _)
validateQueries(q, k) ==
    IF k > Len(q) THEN NilError
    ELSE IF q[k].Name = "" THEN NewError("query: name is required", "", k - 1)
    ELSE IF q[k].Expr = "" THEN NewError("query: expr is required", "", k - 1)
    ELSE validateQueries(q, k + 1)

\* a bug: a configuration without queries passes
ValidateAllowsNoQueries(c) ==
    LET c1 == IF c.Backend = "" THEN [c EXCEPT !.Backend = "prometheus"] ELSE c
        e1 == validateBackend(c1)
    IN  [cfg |-> c1,
         err |-> IF e1 # NilError THEN e1
                 ELSE validateQueries(c1.Queries, 1)]

\* Config.Validate: the configuration as Validate leaves it (the empty backend
\* identifier is replaced by "prometheus") and the error it returns
Validate(c) ==
    LET c1 == IF c.Backend = "" THEN [c EXCEPT !.Backend = "prometheus"] ELSE c
        e1 == validateBackend(c1)
    IN  [cfg |-> c1,
         err |-> IF e1 # NilError THEN e1
                 ELSE IF Len(c1.Queries) = 0
                 THEN NewError("at least one query is required", "", -1)
                 ELSE validateQueries(c1.Queries, 1)]

\* how reading and parsing the file ends
FileOutcomes == {"ok", "missing", "badyaml"}

\* LoadConfig: read the file, parse it, validate it
LoadConfig(file, input) ==
    IF file = "missing"
    THEN [cfg |-> EmptyConfig, err |-> Wrap("failed to read config file",
                                            NewError("no such file", "", -1))]
    ELSE IF file = "badyaml"
    THEN [cfg |-> EmptyConfig, err |-> Wrap("failed to parse YAML",
                                            NewError("yaml error", "", -1))]
    ELSE LET v == Validate(input)
         IN  IF v.err # NilError
             THEN [cfg |-> EmptyConfig, err |-> Wrap("invalid configuration", v.err)]
             ELSE [cfg |-> v.cfg, err |-> NilError]

\* ------------------------------------------------- backends: construction
\* prom.NewClient: api.NewClient fails on an address that does not parse
promNewClient(c) ==
    IF c.URL = "bad"
    THEN [backend |-> "none",
          err |-> Wrap("failed to create Prometheus client",
                       NewError("parse error", "", -1))]
    ELSE [backend |-> "prometheus", err |-> NilError]

\* influxdb.NewClient: the four fields are required
influxdbNewClient(c) ==
    IF c.URL = "" THEN [backend |-> "none", err |-> NewError("InfluxDB URL is required", "", -1)]
    ELSE IF c.Token = ""
    THEN [backend |-> "none", err |-> NewError("InfluxDB token is required", "", -1)]
    ELSE IF c.Org = ""
    THEN [backend |-> "none", err |-> NewError("InfluxDB organization is required", "", -1)]
    ELSE IF c.Bucket = ""
    THEN [backend |-> "none", err |-> NewError("InfluxDB bucket is required", "", -1)]
    ELSE [backend |-> "influxdb", err |-> NilError]

\* influxdb1.NewClient: URL and database are required, and the HTTP client
\* fails on an address that does not parse
influxdb1NewClient(c) ==
    IF c.URL = ""
    THEN [backend |-> "none", err |-> NewError("InfluxDB v1 URL is required", "", -1)]
    ELSE IF c.Database = ""
    THEN [backend |-> "none", err |-> NewError("InfluxDB v1 database is required", "", -1)]
    ELSE IF c.URL = "bad"
    THEN [backend |-> "none",
          err |-> Wrap("failed to create InfluxDB v1 client",
                       NewError("parse error", "", -1))]
    ELSE [backend |-> "influxdb1", err |-> NilError]

\* a bug: the factory has no case for the mock backend
createBackendNoMock(cfg) ==
    CASE cfg.Backend \in {"prometheus", ""} -> promNewClient(cfg.Prometheus)
      [] cfg.Backend = "influxdb"  -> influxdbNewClient(cfg.InfluxDB)
      [] cfg.Backend = "influxdb1" -> influxdb1NewClient(cfg.InfluxDB1)
      [] OTHER -> [backend |-> "none",
                   err |-> NewError("unsupported backend", cfg.Backend, -1)]

\* createBackend: the backend chosen by the identifier of the configuration
createBackend(cfg) ==
    CASE cfg.Backend \in {"prometheus", ""} -> promNewClient(cfg.Prometheus)
      [] cfg.Backend = "influxdb"  -> influxdbNewClient(cfg.InfluxDB)
      [] cfg.Backend = "influxdb1" -> influxdb1NewClient(cfg.InfluxDB1)
      [] cfg.Backend = "mock"      -> [backend |-> "mock", err |-> NilError]
      [] OTHER -> [backend |-> "none",
                   err |-> NewError("unsupported backend", cfg.Backend, -1)]

\* what Connect of a backend can return: the mock always succeeds, the others
\* fail when the server cannot be reached
connectOutcomes(kind) ==
    IF kind = "mock" THEN {NilError}
    ELSE {NilError, NewError("failed to connect", kind, -1)}

\* the backends whose QueryTimeSeries passes its context on to the request
ContextAware == {"prometheus", "influxdb"}

\* main before New, for a configuration file that reads as `file` and holds `input`
BootRecord(file, input) ==
    [pc |-> "main", file |-> file, input |-> input, cfg |-> EmptyConfig,
     backend |-> "none", connects |-> 0, err |-> NilError, ui |-> FALSE,
     exit |-> -1]

\* ------------------------------------------------------------ construction
\* NewTUI and setupUI for n queries
InitUI(n) ==
    LET vis == visibleFor(n)
        s   == updateScrollView(n, vis, 0, 0)
        u   == updateFocus(n, vis, s.scrollOffset, 0, -1)
    IN  /\ panels        = [i \in 0..(n - 1) |-> TextInit]
        /\ histories     = [i \in 0..(n - 1) |->
                               [TimeSeries |-> MkSeries(<<>>), LastError |-> NoErr]]
        /\ focusIndex    = 0
        /\ scrollOffset  = s.scrollOffset
        /\ visiblePanels = vis
        /\ scrollView    = s.scrollView
        /\ appFocus      = u.appFocus
        /\ timeRange     = FooterInitial
        /\ updates       = <<>>
        /\ panicked      = (s.panic \/ u.panic)

\* who calls Stop: the quit key, handled inside the UI loop (ui.go lines 115-119),
\* and a caller on another goroutine
Stoppers == {"quit", "external"}

\* the queries of a configuration with n queries: query i has the name and the
\* expression "i"
QueriesOf(n) == [k \in 1..n |-> [Name |-> ToString(k - 1), Expr |-> ToString(k - 1)]]

\* the application as New leaves it with the TUI of the state, for a backend
\* whose queries observe their context (ctxAware) or not
InitApp(ctxAware) ==
    /\ appPc   = "created"
    /\ now     = 0
    /\ ctxDone = FALSE
    /\ ticker  = [running |-> FALSE, pending |-> FALSE]
    /\ runners = [loop |-> [pc |-> "none", cycle |-> 0],
                  init |-> [pc |-> "none", cycle |-> 0]]
    /\ cycles  = <<>>
    /\ tasks   = <<>>
    /\ wg      = 0
    /\ uiState = "idle"
    /\ stopPc  = [s \in Stoppers |-> "none"]
    /\ backendClosed = 0
    /\ honorsCtx = ctxAware
    /\ boot = [BootRecord("ok", EmptyConfig) EXCEPT
                  !.pc = "created", !.connects = 1, !.ui = TRUE,
                  !.cfg = [EmptyConfig EXCEPT !.Backend = IF ctxAware THEN "prometheus"
                                                          ELSE "mock",
                                              !.Queries = QueriesOf(len(histories))],
                  !.backend = IF ctxAware THEN "prometheus" ELSE "mock"]

\* The TUI on its own, with the application left as New created it: key
\* presses, update calls from other goroutines, and the UI loop running the
\* queued updates.  Navigation with a few updates, for up to MaxQueries queries.
Init ==
    /\ \E n \in 0..MaxQueries : InitUI(n)
    /\ InitApp(FALSE)
    /\ last   = Op("NewTUI", 0, NilSeries, NoErr)
    /\ run    = [start |-> 0, count |-> 0]
    /\ budget = NavCalls

Next ==
    \/ focusNext
    \/ focusPrev
    \/ CallUpdateTimeSeriesFrom(NavSeries, NavErrors)
    \/ CallUpdateMetricFrom(NavPoints, NavErrors)
    \/ Draw

Spec == Init /\ [][Next]_vars

\* the data path alone: updates from background tasks and the UI loop's draws
InitData ==
    /\ \E n \in 0..MaxDataQueries : InitUI(n)
    /\ InitApp(FALSE)
    /\ last   = Op("NewTUI", 0, NilSeries, NoErr)
    /\ run    = [start |-> 0, count |-> 0]
    /\ budget = MaxCalls

NextData ==
    \/ CallUpdateTimeSeriesFrom(SeriesInputs, Errors)
    \/ CallUpdateMetricFrom(Points, Errors)
    \/ Draw

SpecData == InitData /\ [][NextData]_vars

\* the renderer on its own: results whose points differ in value as well as in
\* time are stored by UpdateTimeSeries and rendered by the UI loop
RenderPoints == [Timestamp : 0..MaxSec, Value : 1..MaxRenderValue]
RenderSeries == {MkSeries(p) : p \in SeqsUpTo(RenderPoints, MaxPoints)}

InitRender ==
    /\ \E n \in 1..MaxDataQueries : InitUI(n)
    /\ InitApp(FALSE)
    /\ last   = Op("NewTUI", 0, NilSeries, NoErr)
    /\ run    = [start |-> 0, count |-> 0]
    /\ budget = MaxCalls

NextRender ==
    \/ CallUpdateTimeSeriesFrom(RenderSeries, {})
    \/ Draw

SpecRender == InitRender /\ [][NextRender]_vars

\* ------------------------------------- ui.go: UpdateTimeSeries in two steps
\* UpdateTimeSeries takes no lock, so calls made by different goroutines
\* interleave between its two parts.  Here `tasks` holds the calls that are
\* under way: [idx, err, pc], pc "stored" after the first part and "done" after
\* the second.

\* the first part of a call (lines 278-289): the index check and the write to
\* the data cell
UpdateTimeSeriesStore(index, timeSeries, err) ==
    /\ ~panicked
    /\ budget > 0
    /\ IF outOfRange(index, len(histories))
       THEN UNCHANGED <<histories, tasks>>
       ELSE /\ histories' = [histories EXCEPT ![index] = storeResult(@, timeSeries, err)]
            /\ tasks' = Append(tasks, [idx |-> index, err |-> err, pc |-> "stored"])
    /\ last' = Op("UpdateTimeSeries", index, timeSeries, err)
    /\ budget' = budget - 1
    /\ UNCHANGED <<panels, focusIndex, scrollOffset, visiblePanels, scrollView,
                   appFocus, timeRange, updates, panicked, run, appPc, now,
                   ctxDone, ticker, runners, cycles, wg, uiState, stopPc,
                   backendClosed, honorsCtx, boot>>

\* the second part of call k (lines 292-304): the redraw, which captured the
\* index and the error of the call, is queued for the UI loop
UpdateTimeSeriesQueue(k) ==
    /\ ~panicked
    /\ tasks[k].pc = "stored"
    /\ updates' = IF len(panels) > tasks[k].idx
                  THEN Append(updates, [index |-> tasks[k].idx, err |-> tasks[k].err])
                  ELSE updates
    /\ tasks' = [tasks EXCEPT ![k].pc = "done"]
    /\ UNCHANGED <<panels, histories, focusIndex, scrollOffset, visiblePanels,
                   scrollView, appFocus, timeRange, panicked, last, run, budget,
                   appPc, now, ctxDone, ticker, runners, cycles, wg, uiState,
                   stopPc, backendClosed, honorsCtx, boot>>

\* goroutines calling UpdateTimeSeries side by side, and the UI loop
InitCalls ==
    /\ \E n \in 0..MaxDataQueries : InitUI(n)
    /\ InitApp(FALSE)
    /\ last   = Op("NewTUI", 0, NilSeries, NoErr)
    /\ run    = [start |-> 0, count |-> 0]
    /\ budget = MaxCalls

NextCalls ==
    \/ \E i \in -1..len(panels), s \in NavSeries, e \in {NoErr} \cup Errors :
          UpdateTimeSeriesStore(i, s, e)
    \/ \E k \in 1..Len(tasks) : UpdateTimeSeriesQueue(k)
    \/ Draw

SpecCalls == InitCalls /\ [][NextCalls]_vars

\* ------------------------------------------------------- app.go: orchestrator
CtxErr      == "context canceled"       \* the error of a cancelled context
BackendErrs == {"e1"}                   \* errors a backend reports by itself
\* the series a backend returns to a query of the cycle with context c: the
\* backends query the window that ends at the time of the call (time.Now()),
\* so the result carries the time at which its cycle began
BackendSeries(c) ==
    {MkSeries(<<[Timestamp |-> c.start, Value |-> 1]>>)}

\* the context of a cycle is done once its cancel function was called, its
\* deadline has passed, or its parent a.ctx is cancelled
CtxIsDone(c) ==
    c.cancelled \/ ctxDone \/ now >= c.start + CycleTimeout

\* Start: create the ticker, launch updateLoop under the wait group and the
\* initial updateMetrics, and run the UI loop
Start ==
    /\ appPc = "created"
    /\ appPc'   = "started"
    /\ ticker'  = [running |-> TRUE, pending |-> FALSE]
    /\ wg'      = wg + 1
    /\ runners' = [loop |-> [pc |-> "select", cycle |-> 0],
                   init |-> [pc |-> "ready", cycle |-> 0]]
    /\ uiState' = "running"
    /\ UNCHANGED <<uiVars, last, run, budget, now, ctxDone, cycles, tasks,
                   stopPc, backendClosed, honorsCtx, boot>>

\* time passes; a running ticker puts a tick into its channel, which holds one
Tick ==
    /\ appPc = "started"
    /\ now < MaxClock
    /\ now' = now + 1
    /\ ticker' = IF ticker.running /\ (now + 1) % TickInterval = 0
                 THEN [ticker EXCEPT !.pending = TRUE] ELSE ticker
    /\ UNCHANGED <<uiVars, last, run, budget, appPc, ctxDone, runners, cycles,
                   tasks, wg, uiState, stopPc, backendClosed, honorsCtx, boot>>

\* a bug: a query whose last outcome was an error is not issued again
spawnCycleSkipsFailed(r) ==
    LET q  == boot.cfg.Queries
        ok == SelectSeq([k \in 1..Len(q) |-> k - 1],
                        LAMBDA i : histories[i].LastError = NoErr)
    IN  /\ Len(cycles) < MaxCycles
        /\ cycles'  = Append(cycles, [start |-> now, cancelled |-> FALSE])
        /\ tasks'   = tasks \o [k \in 1..Len(ok) |->
                                   [cycle |-> Len(cycles) + 1, idx |-> ok[k],
                                    expr |-> q[ok[k] + 1].Expr,
                                    pc |-> "querying", afterErr |-> FALSE]]
        /\ runners' = [runners EXCEPT ![r] = [pc |-> "updating", cycle |-> Len(cycles) + 1]]

\* a bug: the goroutines share the loop variable and all see the last query
spawnCycleSharedVariable(r) ==
    LET q == boot.cfg.Queries
    IN  /\ Len(cycles) < MaxCycles
        /\ cycles'  = Append(cycles, [start |-> now, cancelled |-> FALSE])
        /\ tasks'   = tasks \o [k \in 1..Len(q) |->
                                   [cycle |-> Len(cycles) + 1, idx |-> k - 1,
                                    expr |-> q[Len(q)].Expr,
                                    pc |-> "querying",
                                    afterErr |-> histories[k - 1].LastError # NoErr]]
        /\ runners' = [runners EXCEPT ![r] = [pc |-> "updating", cycle |-> Len(cycles) + 1]]

\* updateMetrics up to the end of its loop (lines 136-150): derive the context
\* of the cycle and start one goroutine per configured query, which gets the
\* index and the query as arguments and calls a.backend.QueryTimeSeries with
\* the query's expression under that context
spawnCycle(r) ==
    LET q == boot.cfg.Queries
    IN  /\ Len(cycles) < MaxCycles
        /\ cycles'  = Append(cycles, [start |-> now, cancelled |-> FALSE])
        /\ tasks'   = tasks \o [k \in 1..Len(q) |->
                                   [cycle |-> Len(cycles) + 1, idx |-> k - 1,
                                    expr |-> q[k].Expr,
                                    pc |-> "querying",
                                    afterErr |-> histories[k - 1].LastError # NoErr]]
        /\ runners' = [runners EXCEPT ![r] = [pc |-> "updating", cycle |-> Len(cycles) + 1]]

\* the goroutine of the initial update enters updateMetrics (line 99)
InitialUpdate ==
    /\ runners.init.pc = "ready"
    /\ spawnCycle("init")
    /\ UNCHANGED <<uiVars, last, run, budget, appPc, now, ctxDone, ticker, wg,
                   uiState, stopPc, backendClosed, honorsCtx, boot>>

\* updateLoop takes a tick from the ticker and enters updateMetrics (line 128)
LoopTick ==
    /\ runners.loop.pc = "select"
    /\ ticker.pending
    /\ ticker' = [ticker EXCEPT !.pending = FALSE]
    /\ spawnCycle("loop")
    /\ UNCHANGED <<uiVars, last, run, budget, appPc, now, ctxDone, wg,
                   uiState, stopPc, backendClosed, honorsCtx, boot>>

\* updateLoop sees a.ctx done and returns (line 126); its wg.Done runs
LoopExit ==
    /\ runners.loop.pc = "select"
    /\ ctxDone
    /\ runners' = [runners EXCEPT !.loop.pc = "done"]
    /\ wg' = wg - 1
    /\ UNCHANGED <<uiVars, last, run, budget, appPc, now, ctxDone, ticker, cycles,
                   tasks, uiState, stopPc, backendClosed, honorsCtx, boot>>

\* a bug: updateMetrics waits for the goroutines of its cycle before it returns
updateMetricsReturnWaits(r) ==
    /\ runners[r].pc = "updating"
    /\ \A k \in 1..Len(tasks) : tasks[k].cycle = runners[r].cycle => tasks[k].pc = "done"
    /\ cycles'  = [cycles EXCEPT ![runners[r].cycle].cancelled = TRUE]
    /\ runners' = [runners EXCEPT ![r].pc = IF r = "loop" THEN "select" ELSE "done"]
    /\ UNCHANGED <<uiVars, last, run, budget, appPc, now, ctxDone, ticker, tasks,
                   wg, uiState, stopPc, backendClosed, honorsCtx, boot>>

\* updateMetrics returns: the deferred cancel of the cycle's context runs (line 137)
updateMetricsReturn(r) ==
    /\ runners[r].pc = "updating"
    /\ cycles'  = [cycles EXCEPT ![runners[r].cycle].cancelled = TRUE]
    /\ runners' = [runners EXCEPT ![r].pc = IF r = "loop" THEN "select" ELSE "done"]
    /\ UNCHANGED <<uiVars, last, run, budget, appPc, now, ctxDone, ticker, tasks,
                   wg, uiState, stopPc, backendClosed, honorsCtx, boot>>

UpdateReturn == \E r \in {"loop", "init"} : updateMetricsReturn(r)

\* what QueryTimeSeries can return under the context of cycle c: a backend that
\* observes its context fails once the context is done
queryOutcomes(c) ==
    IF honorsCtx /\ CtxIsDone(c)
    THEN {[series |-> NilSeries, err |-> CtxErr]}
    ELSE {[series |-> s, err |-> NoErr] : s \in BackendSeries(c)}
         \cup {[series |-> NilSeries, err |-> e] : e \in BackendErrs}

\* a bug against the claim of C20: a sequence guard, the outcome of a task is
\* dropped when a task of a later cycle has already resolved for the same query
resolveTaskGuarded(k) ==
    /\ tasks[k].pc = "querying"
    /\ ~panicked
    /\ IF \E j \in 1..Len(tasks) : /\ tasks[j].idx = tasks[k].idx
                                     /\ tasks[j].cycle > tasks[k].cycle
                                     /\ tasks[j].pc = "done"
       THEN UNCHANGED <<uiVars, last>>
       ELSE \E o \in queryOutcomes(cycles[tasks[k].cycle]) :
              /\ UpdateTimeSeries(tasks[k].idx, o.series, o.err)
              /\ last' = Op("UpdateTimeSeries", tasks[k].idx, o.series, o.err)
    /\ tasks' = [tasks EXCEPT ![k].pc = "done"]
    /\ UNCHANGED <<run, budget, appPc, now, ctxDone, ticker, runners, cycles,
                   wg, uiState, stopPc, backendClosed, honorsCtx, boot>>

\* a bug: the outcome is handed to the UI under the index of the next query
resolveTaskShifted(k) ==
    /\ tasks[k].pc = "querying"
    /\ ~panicked
    /\ \E o \in queryOutcomes(cycles[tasks[k].cycle]) :
          LET j == (tasks[k].idx + 1) % len(histories)
          IN  /\ UpdateTimeSeries(j, o.series, o.err)
              /\ last' = Op("UpdateTimeSeries", j, o.series, o.err)
    /\ tasks' = [tasks EXCEPT ![k].pc = "done"]
    /\ UNCHANGED <<run, budget, appPc, now, ctxDone, ticker, runners, cycles,
                   wg, uiState, stopPc, backendClosed, honorsCtx, boot>>

\* QueryTimeSeries returns in the goroutine of task k, which hands the outcome
\* to the UI (lines 141-148)
resolveTask(k) ==
    /\ tasks[k].pc = "querying"
    /\ ~panicked
    /\ \E o \in queryOutcomes(cycles[tasks[k].cycle]) :
          /\ UpdateTimeSeries(tasks[k].idx, o.series, o.err)
          /\ last' = Op("UpdateTimeSeries", tasks[k].idx, o.series, o.err)
    /\ tasks' = [tasks EXCEPT ![k].pc = "done"]
    /\ UNCHANGED <<run, budget, appPc, now, ctxDone, ticker, runners, cycles,
                   wg, uiState, stopPc, backendClosed, honorsCtx, boot>>

TaskResolve == \E k \in 1..Len(tasks) : resolveTask(k)

\* the UI loop runs a queued update
AppDraw ==
    /\ uiState = "running"
    /\ Draw

\* Stop up to a.wg.Wait (lines 107-111): stop the ticker, cancel a.ctx, stop the UI.
\* The quit key is handled by the UI loop, so only while that loop runs.
StopBegin(s) ==
    /\ appPc = "started"
    /\ stopPc[s] = "none"
    /\ s = "quit" => uiState = "running"
    /\ ticker'  = [ticker EXCEPT !.running = FALSE]
    /\ ctxDone' = TRUE
    /\ uiState' = "stopped"
    /\ stopPc'  = [stopPc EXCEPT ![s] = "waiting"]
    /\ UNCHANGED <<uiVars, last, run, budget, appPc, now, runners, cycles, tasks,
                   wg, backendClosed, honorsCtx, boot>>

\* a bug: the per-query goroutines are waited for as well, so that a call that
\* never returns keeps Stop in its wait
StopFinishWaitsForTasks(s) ==
    /\ stopPc[s] = "waiting"
    /\ wg = 0
    /\ \A k \in 1..Len(tasks) : tasks[k].pc = "done"
    /\ stopPc' = [stopPc EXCEPT ![s] = "done"]
    /\ backendClosed' = backendClosed + 1
    /\ UNCHANGED <<uiVars, last, run, budget, appPc, now, ctxDone, ticker, runners,
                   cycles, tasks, wg, uiState, honorsCtx, boot>>

\* a.wg.Wait returns and Stop closes the backend (lines 114-119)
StopFinish(s) ==
    /\ stopPc[s] = "waiting"
    /\ wg = 0
    /\ stopPc' = [stopPc EXCEPT ![s] = "done"]
    /\ backendClosed' = backendClosed + 1
    /\ UNCHANGED <<uiVars, last, run, budget, appPc, now, ctxDone, ticker, runners,
                   cycles, tasks, wg, uiState, honorsCtx, boot>>

\* the application with 1..MaxAppQueries queries, for both kinds of backend
InitAppSpec ==
    /\ \E n \in 1..MaxAppQueries : InitUI(n)
    /\ \E b \in BOOLEAN : InitApp(b)
    /\ last   = Op("NewTUI", 0, NilSeries, NoErr)
    /\ run    = [start |-> 0, count |-> 0]
    /\ budget = 0

NextApp ==
    \/ Start
    \/ Tick
    \/ InitialUpdate
    \/ LoopTick
    \/ LoopExit
    \/ UpdateReturn
    \/ TaskResolve
    \/ AppDraw
    \/ \E s \in Stoppers : StopBegin(s)
    \/ \E s \in Stoppers : StopFinish(s)

SpecApp == InitAppSpec /\ [][NextApp]_vars

\* ------------------------------------------------ app.go: Stop, terminating
\* Stop called before Start by a caller outside the UI loop (lines 107-111):
\* there is no ticker yet, a.ctx is cancelled, and Stop of a UI loop that is not
\* running does nothing
StopEarly ==
    /\ appPc = "created"
    /\ stopPc["external"] = "none"
    /\ ctxDone' = TRUE
    /\ stopPc'  = [stopPc EXCEPT !["external"] = "waiting"]
    /\ UNCHANGED <<uiVars, last, run, budget, appPc, now, ticker, runners, cycles,
                   tasks, wg, uiState, backendClosed, honorsCtx, boot>>

\* the application from New to the return of Stop.  The Go scheduler lets every
\* goroutine that can run take its next step: the timer loop leaves its select
\* and returns from updateMetrics, and a caller of Stop returns from a.wg.Wait
\* once the counter is zero.  A backend call in flight need never return.
NextStop ==
    \/ Start
    \/ Tick
    \/ InitialUpdate
    \/ LoopTick
    \/ LoopExit
    \/ UpdateReturn
    \/ TaskResolve
    \/ StopEarly
    \/ \E s \in Stoppers : StopBegin(s)
    \/ \E s \in Stoppers : StopFinish(s)

SpecStop ==
    /\ InitAppSpec
    /\ [][NextStop]_vars
    /\ WF_vars(LoopExit)
    /\ WF_vars(UpdateReturn)
    /\ \A s \in Stoppers : WF_vars(StopFinish(s))

\* ------------------------------------------- mock/client.go: QueryTimeSeries
\* the places of a call of the mock's QueryTimeSeries, in order: entered, inside
\* c.rand.Intn (line 50), in time.Sleep, and for i = 4 down to 0 inside
\* c.rand.Float64 (lines 62-71) and then at the append of the point (lines 74-77)
MockPath ==
    <<"querying", "rand.Intn", "time.Sleep",
      "rand.Float64 4", "append 4", "rand.Float64 3", "append 3",
      "rand.Float64 2", "append 2", "rand.Float64 1", "append 1",
      "rand.Float64 0", "append 0">>

\* the places at which the call is inside a method of c.rand, the one generator
\* of the client (line 36); the method reads and writes the generator's state
\* and takes no lock
InRand == {"rand.Intn", "rand.Float64 4", "rand.Float64 3", "rand.Float64 2",
           "rand.Float64 1", "rand.Float64 0"}

\* the place of the call at which QueryTimeSeries returns: the mock after its
\* last append (line 80), the other backends when the server has answered
ReturnPlace == IF boot.backend = "mock" THEN MockPath[Len(MockPath)] ELSE "querying"

\* the goroutine of task k moves one place on inside the mock's QueryTimeSeries.
\* Leaving a method of c.rand while another goroutine is inside one is a data
\* race on the generator: the program goes on with some value or panics.
QueryTimeSeriesStep(k) ==
    /\ boot.backend = "mock"
    /\ ~panicked
    /\ \E p \in 1..(Len(MockPath) - 1) :
          /\ tasks[k].pc = MockPath[p]
          /\ tasks' = [tasks EXCEPT ![k].pc = MockPath[p + 1]]
    /\ IF /\ tasks[k].pc \in InRand
          /\ \E j \in 1..Len(tasks) : j # k /\ tasks[j].pc \in InRand
       THEN panicked' \in BOOLEAN
       ELSE panicked' = FALSE
    /\ UNCHANGED <<panels, histories, focusIndex, scrollOffset, visiblePanels,
                   scrollView, appFocus, timeRange, updates, last, run, budget,
                   appPc, now, ctxDone, ticker, runners, cycles, wg, uiState,
                   stopPc, backendClosed, honorsCtx, boot>>

\* QueryTimeSeries returns in the goroutine of task k, which hands the outcome
\* to the UI (app.go lines 141-148); the mock returns a series and never an error
QueryTimeSeriesReturn(k) ==
    /\ tasks[k].pc = ReturnPlace
    /\ ~panicked
    /\ \E o \in queryOutcomes(cycles[tasks[k].cycle]) :
          /\ boot.backend = "mock" => o.err = NoErr
          /\ UpdateTimeSeries(tasks[k].idx, o.series, o.err)
          /\ last' = Op("UpdateTimeSeries", tasks[k].idx, o.series, o.err)
    /\ tasks' = [tasks EXCEPT ![k].pc = "done"]
    /\ UNCHANGED <<run, budget, appPc, now, ctxDone, ticker, runners, cycles,
                   wg, uiState, stopPc, backendClosed, honorsCtx, boot>>

\* the calls of one refresh cycle seen inside the backend: the application is
\* started, the initial updateMetrics starts one goroutine per query on the
\* one backend instance, and the goroutines run their calls side by side
InitRace ==
    /\ \E n \in 1..MaxAppQueries : InitUI(n)
    /\ \E b \in BOOLEAN : InitApp(b)
    /\ last   = Op("NewTUI", 0, NilSeries, NoErr)
    /\ run    = [start |-> 0, count |-> 0]
    /\ budget = 0

NextRace ==
    \/ Start
    \/ InitialUpdate
    \/ updateMetricsReturn("init")
    \/ \E k \in 1..Len(tasks) : QueryTimeSeriesStep(k)
    \/ \E k \in 1..Len(tasks) : QueryTimeSeriesReturn(k)
    \/ AppDraw

SpecRace == InitRace /\ [][NextRace]_vars

\* ------------------------------------------------- main.go and app.go: New
\* what the steps of New leave alone
bootFrame == <<last, run, budget, now, ctxDone, ticker, runners, cycles, tasks,
               wg, uiState, stopPc, backendClosed>>

\* New, lines 32-35: load the configuration
NewLoadConfig ==
    /\ boot.pc = "main"
    /\ LET r == LoadConfig(boot.file, boot.input)
       IN  boot' = IF r.err # NilError
                   THEN [boot EXCEPT !.pc = "failed",
                                     !.err = Wrap("failed to load config", r.err)]
                   ELSE [boot EXCEPT !.pc = "loaded", !.cfg = r.cfg]
    /\ UNCHANGED <<uiVars, bootFrame, appPc, honorsCtx>>

\* New, lines 38-41: create the backend
NewCreateBackend ==
    /\ boot.pc = "loaded"
    /\ LET r == createBackend(boot.cfg)
       IN  boot' = IF r.err # NilError
                   THEN [boot EXCEPT !.pc = "failed",
                                     !.err = Wrap("failed to create backend", r.err)]
                   ELSE [boot EXCEPT !.pc = "built", !.backend = r.backend]
    /\ UNCHANGED <<uiVars, bootFrame, appPc, honorsCtx>>

\* a bug: a failed connection is tried once more
NewConnectRetries ==
    /\ boot.pc = "built"
    /\ \E e \in connectOutcomes(boot.backend) :
          boot' = IF e # NilError
                  THEN [boot EXCEPT !.pc = IF boot.connects = 0 THEN "built" ELSE "failed",
                                    !.connects = @ + 1, !.err = e]
                  ELSE [boot EXCEPT !.pc = "connected", !.connects = @ + 1]
    /\ UNCHANGED <<uiVars, bootFrame, appPc, honorsCtx>>

\* New, lines 44-49: test the connection; its error is returned as it is
NewConnect ==
    /\ boot.pc = "built"
    /\ \E e \in connectOutcomes(boot.backend) :
          boot' = IF e # NilError
                  THEN [boot EXCEPT !.pc = "failed", !.connects = @ + 1, !.err = e]
                  ELSE [boot EXCEPT !.pc = "connected", !.connects = @ + 1]
    /\ UNCHANGED <<uiVars, bootFrame, appPc, honorsCtx>>

\* New, lines 52-64: the application context, the App and its TUI (NewTUI and
\* setupUI for the configured queries)
NewCreateUI ==
    /\ boot.pc = "connected"
    /\ LET n   == Len(boot.cfg.Queries)
           vis == visibleFor(n)
           s   == updateScrollView(n, vis, 0, 0)
           u   == updateFocus(n, vis, s.scrollOffset, 0, -1)
       IN  /\ panels'        = [i \in 0..(n - 1) |-> TextInit]
           /\ histories'     = [i \in 0..(n - 1) |->
                                   [TimeSeries |-> MkSeries(<<>>), LastError |-> NoErr]]
           /\ focusIndex'    = 0
           /\ scrollOffset'  = s.scrollOffset
           /\ visiblePanels' = vis
           /\ scrollView'    = s.scrollView
           /\ appFocus'      = u.appFocus
           /\ timeRange'     = FooterInitial
           /\ updates'       = <<>>
           /\ panicked'      = (s.panic \/ u.panic)
    /\ boot'      = [boot EXCEPT !.pc = "created", !.ui = TRUE]
    /\ appPc'     = "created"
    /\ honorsCtx' = (boot.backend \in ContextAware)
    /\ UNCHANGED bootFrame

\* main, lines 61-65: New failed, the error is printed and the process exits with 1
MainExit ==
    /\ boot.pc = "failed"
    /\ boot' = [boot EXCEPT !.pc = "exited", !.exit = 1]
    /\ UNCHANGED <<uiVars, bootFrame, appPc, honorsCtx>>

\* the process from main on: every way the configuration file can read
InitBoot ==
    /\ \E f \in FileOutcomes :
          \E c \in (IF f = "ok" THEN ConfigInputs ELSE {EmptyConfig}) :
              boot = BootRecord(f, c)
    /\ panels        = <<>>
    /\ histories     = <<>>
    /\ focusIndex    = 0
    /\ scrollOffset  = 0
    /\ visiblePanels = 0
    /\ scrollView    = <<>>
    /\ appFocus      = -1
    /\ timeRange     = FooterInitial
    /\ updates       = <<>>
    /\ panicked      = FALSE
    /\ appPc   = "none"
    /\ now     = 0
    /\ ctxDone = FALSE
    /\ ticker  = [running |-> FALSE, pending |-> FALSE]
    /\ runners = [loop |-> [pc |-> "none", cycle |-> 0],
                  init |-> [pc |-> "none", cycle |-> 0]]
    /\ cycles  = <<>>
    /\ tasks   = <<>>
    /\ wg      = 0
    /\ uiState = "idle"
    /\ stopPc  = [s \in Stoppers |-> "none"]
    /\ backendClosed = 0
    /\ honorsCtx = FALSE
    /\ last   = Op("main", 0, NilSeries, NoErr)
    /\ run    = [start |-> 0, count |-> 0]
    /\ budget = 0

\* startup: New step by step, then main either exits or calls Start, and the
\* initial refresh issues its queries
NextBoot ==
    \/ NewLoadConfig
    \/ NewCreateBackend
    \/ NewConnect
    \/ NewCreateUI
    \/ MainExit
    \/ Start
    \/ InitialUpdate

SpecBoot == InitBoot /\ [][NextBoot]_vars

\* ------------------------------------------------------------------ claims
NavOps    == {"focusNext", "focusPrev"}
UpdateOps == {"UpdateTimeSeries", "UpdateMetric"}
ValidIndex(i) == i >= 0 /\ i < len(histories)

\* C1: with at least one query, the focused panel lies inside the visible
\* window, scrollOffset <= focusIndex <= scrollOffset + visiblePanels - 1,
\* initially and after every focusNext/focusPrev.
C1_FocusInWindow ==
    len(panels) > 0 =>
        /\ scrollOffset <= focusIndex
        /\ focusIndex <= scrollOffset + visiblePanels - 1

\* C1 witness: focusPrev wrapped from the first to the last panel of a list
\* longer than the window, and the window followed it.
C1_Witness ==
    /\ len(panels) > visiblePanels
    /\ last.op = "focusPrev"
    /\ focusIndex = len(panels) - 1
    /\ scrollOffset = len(panels) - visiblePanels

\* C2: in every reachable state 0 <= scrollOffset <= max(0, N - visiblePanels).
C2_ScrollInBounds ==
    LET d == len(panels) - visiblePanels
    IN  /\ 0 <= scrollOffset
        /\ scrollOffset <= (IF d > 0 THEN d ELSE 0)

\* C2 witness: the window is scrolled as far right as it goes and an update
\* call has been made as well.
C2_Witness ==
    /\ len(panels) > visiblePanels
    /\ scrollOffset = len(panels) - visiblePanels
    /\ budget < NavCalls
    /\ last.op \in NavOps

\* C3: with N > 0 queries the focus index stays in 0..N-1; focusNext moves it
\* from i to i+1, or from N-1 to 0, and focusPrev from i to i-1, or from 0 to N-1.
C3_FocusStep ==
    LET n == len(panels)
    IN  n > 0 =>
          /\ focusIndex' >= 0 /\ focusIndex' < n
          /\ last'.op = "focusNext" =>
                focusIndex' = (IF focusIndex = n - 1 THEN 0 ELSE focusIndex + 1)
          /\ last'.op = "focusPrev" =>
                focusIndex' = (IF focusIndex = 0 THEN n - 1 ELSE focusIndex - 1)

C3_FocusWraps ==
    /\ [](len(panels) > 0 => (focusIndex >= 0 /\ focusIndex < len(panels)))
    /\ [][C3_FocusStep]_vars

\* C3 witness: focusPrev has wrapped the focus from 0 to N-1.
C3_Witness ==
    /\ len(panels) >= 2
    /\ last.op = "focusPrev"
    /\ run.start = len(panels) - 1
    /\ focusIndex = len(panels) - 1

\* C4: N calls of focusNext in a row bring the focus back to where it was.
C4_FullCycle ==
    (len(panels) > 0 /\ run.count = len(panels)) => focusIndex = run.start

\* C4 witness: a full cycle of focusNext calls that started away from panel 0.
C4_Witness ==
    /\ len(panels) >= 3
    /\ run.count = len(panels)
    /\ run.start # 0
    /\ last.op = "focusNext"

\* C5: with no queries, construction, focusNext and focusPrev leave focusIndex
\* and scrollOffset at their initial values and nothing indexes the panel list.
C5_EmptyListSafe ==
    len(panels) = 0 =>
        /\ focusIndex = 0
        /\ scrollOffset = 0
        /\ scrollView = <<>>
        /\ ~panicked

\* C5 witness: focusNext has been called on the empty list.
C5_Witness ==
    /\ len(panels) = 0
    /\ last.op = "focusNext"

\* C6: right after UpdateTimeSeries(i, s, nil) with a valid i, before any draw,
\* the stored series of query i is s itself: same points, same order.
C6_StoresExactly ==
    (last.op = "UpdateTimeSeries" /\ ValidIndex(last.index) /\ last.err = NoErr)
        => histories[last.index].TimeSeries = last.series

\* C6 witness: a series whose points are out of time order has been stored over
\* an earlier successful update of the same query.
C6_Witness ==
    /\ last.op = "UpdateTimeSeries" /\ ValidIndex(last.index) /\ last.err = NoErr
    /\ Len(last.series.Points) = 2
    /\ last.series.Points[1].Timestamp > last.series.Points[2].Timestamp
    /\ Len(updates) = 2
    /\ updates[1].index = last.index /\ updates[1].err = NoErr

\* C7: UpdateTimeSeries(i, _, e) with a valid i and an error e leaves the stored
\* series of query i as it was and sets its LastError to e.
C7_ErrorStep ==
    (last'.op = "UpdateTimeSeries" /\ ValidIndex(last'.index) /\ last'.err # NoErr)
        => /\ histories'[last'.index].TimeSeries = histories[last'.index].TimeSeries
           /\ histories'[last'.index].LastError = last'.err

C7_ErrorKeepsSeries == [][C7_ErrorStep]_vars

\* C7 witness: an error has been recorded for a query that holds points.
C7_Witness ==
    /\ last.op = "UpdateTimeSeries" /\ ValidIndex(last.index) /\ last.err # NoErr
    /\ Len(histories[last.index].TimeSeries.Points) > 0
    /\ histories[last.index].LastError = last.err

\* C8: an update call with an index below 0 or not below the query count
\* changes nothing: no series, no error, no view state, no queued update.
C8_InvalidStep ==
    (last'.op \in UpdateOps /\ ~ValidIndex(last'.index)) => UNCHANGED uiVars

C8_InvalidIndexNoop == [][C8_InvalidStep]_vars

\* C8 witness: an update with index -1 was called after the view had scrolled.
C8_Witness ==
    /\ last.op \in UpdateOps
    /\ last.index = -1
    /\ focusIndex > 0
    /\ scrollOffset > 0

\* the timestamps of all stored points
StoredTimes ==
    UNION {{histories[i].TimeSeries.Points[k].Timestamp :
               k \in 1..Len(histories[i].TimeSeries.Points)} : i \in DOMAIN histories}

Least(T)    == CHOOSE x \in T : \A y \in T : x <= y
Greatest(T) == CHOOSE x \in T : \A y \in T : x >= y

\* C9: after the footer has been recomputed it shows the least and the greatest
\* timestamp of all stored points, each as its time of day, and it shows the
\* waiting text exactly when no series holds a point.
C9_FooterRange ==
    (last.op = "Draw" /\ ~panicked) =>
        IF StoredTimes = {}
        THEN timeRange = FooterWaiting
        ELSE /\ timeRange.kind = "Time Range"
             /\ timeRange.from = Least(StoredTimes) % SecondsPerDay
             /\ timeRange.to = Greatest(StoredTimes) % SecondsPerDay

\* C9 witness: two queries hold points, the earliest of all is the second point
\* of the second query and the latest of all is in the first query; the footer
\* has been recomputed.
C9_Witness ==
    /\ last.op = "Draw" /\ ~panicked
    /\ len(histories) = 2
    /\ Len(histories[0].TimeSeries.Points) = 2
    /\ Len(histories[1].TimeSeries.Points) = 2
    /\ histories[1].TimeSeries.Points[2].Timestamp = Least(StoredTimes)
    /\ histories[0].TimeSeries.Points[1].Timestamp = Greatest(StoredTimes)
    /\ Least(StoredTimes) < histories[0].TimeSeries.Points[2].Timestamp
    /\ Greatest(StoredTimes) > histories[1].TimeSeries.Points[1].Timestamp
    /\ updates = <<>>

\* C10: while a per-query task waits for its backend response, the context of
\* its cycle is done only if CycleTimeout seconds have passed since the cycle
\* began or the application's context has been cancelled.
C10_CycleContextLive ==
    \A k \in 1..Len(tasks) :
        (tasks[k].pc = "querying" /\ CtxIsDone(cycles[tasks[k].cycle]))
            => (now >= cycles[tasks[k].cycle].start + CycleTimeout \/ ctxDone)

\* C11: Stop closes the backend only after every refresh task has finished: once
\* a call of Stop has closed the backend and returned, no per-query task is
\* still inside QueryTimeSeries (and so none calls UpdateTimeSeries later), and
\* neither the timer loop nor the initial refresh is still running.
C11_StopWaitsForTasks ==
    (\E s \in Stoppers : stopPc[s] = "done") =>
        /\ \A k \in 1..Len(tasks) : tasks[k].pc = "done"
        /\ runners.loop.pc = "done"
        /\ runners.init.pc = "done"

\* C12: the UI loop is stopped only after the backend has been closed.
C12_UIStoppedLast ==
    uiState = "stopped" => backendClosed > 0

\* C13: Backend.Close is called at most once in a run, also when both the quit
\* key and another caller trigger Stop.
C13_CloseOnce ==
    backendClosed <= 1

\* C14: no refresh task waits for another: a task that is inside QueryTimeSeries
\* can return and forward its outcome whatever the other tasks are doing,
\* updateMetrics returns without waiting for the tasks it started, and a pending
\* tick starts the next cycle while tasks of an earlier cycle are still out.
C14_NoWaitingOnOthers ==
    /\ \A k \in 1..Len(tasks) :
          (tasks[k].pc = "querying" /\ ~panicked) => ENABLED resolveTask(k)
    /\ \A r \in {"loop", "init"} :
          runners[r].pc = "updating" => ENABLED updateMetricsReturn(r)
    /\ (runners.loop.pc = "select" /\ ticker.pending /\ Len(cycles) < MaxCycles)
          => ENABLED LoopTick

\* C14 witness: with two queries, one task of the first cycle is still inside
\* QueryTimeSeries while the other query's result of that cycle has been stored
\* and a task of the second cycle has resolved as well.
C14_Witness ==
    /\ len(histories) = 2
    /\ Len(cycles) = 2
    /\ \E k, j, m \in 1..Len(tasks) :
          /\ tasks[k].cycle = 1 /\ tasks[k].pc = "querying"
          /\ tasks[j].cycle = 1 /\ tasks[j].pc = "done"
          /\ tasks[j].idx # tasks[k].idx
          /\ Len(histories[tasks[j].idx].TimeSeries.Points) > 0
          /\ tasks[m].cycle = 2 /\ tasks[m].pc = "done"

\* a per-query task resolves in this step
ResolveStep == Len(tasks') = Len(tasks) /\ tasks' # tasks

\* C15: when a task hands an error to the UI, the error is stored for its query
\* and nothing else changes: every other query keeps its series and error, and
\* the application, its context, the ticker, the timer loop and the UI loop are
\* as before; every cycle started later issues one task for every query,
\* failed ones included.
C15_ErrorStep ==
    /\ (ResolveStep /\ last'.err # NoErr) =>
          /\ histories'[last'.index].LastError = last'.err
          /\ \A i \in DOMAIN histories : i # last'.index => histories'[i] = histories[i]
          /\ ~panicked'
          /\ UNCHANGED <<appPc, ctxDone, ticker, runners, uiState, stopPc, wg>>
    /\ Len(cycles') > Len(cycles) =>
          \A i \in DOMAIN histories :
              \E k \in (Len(tasks) + 1)..Len(tasks') :
                  /\ tasks'[k].idx = i
                  /\ tasks'[k].cycle = Len(cycles')
                  /\ tasks'[k].pc = "querying"

C15_ErrorIsLocal == [][C15_ErrorStep]_vars

\* C15 witness: with two queries, the first cycle stored an error for one query
\* and a series for the other; the application was not stopped, the timer loop
\* started the second cycle afterwards, which issued the failed query again.
C15_Witness ==
    /\ len(histories) = 2
    /\ ~ctxDone /\ uiState = "running"
    /\ \E k \in 1..Len(tasks) :
          /\ tasks[k].cycle = 2 /\ tasks[k].afterErr /\ tasks[k].pc = "querying"
          /\ histories[tasks[k].idx].LastError \in BackendErrs
          /\ \E i \in DOMAIN histories :
                /\ i # tasks[k].idx
                /\ histories[i].LastError = NoErr
                /\ Len(histories[i].TimeSeries.Points) > 0

\* Connect was called and failed
ConnectFailed == boot.connects > 0 /\ boot.pc \in {"failed", "exited"}

\* C16: Connect is called at most once, and a query is issued only after that
\* one call has succeeded; when Connect fails New returns its error and nothing
\* else is called: no TUI exists, no ticker runs, no refresh cycle and no query
\* is started, and the process exits with a non-zero code.
C16_ConnectOnceAndFatal ==
    /\ boot.connects <= 1
    /\ tasks # <<>> => (boot.connects = 1 /\ boot.pc = "created")
    /\ ConnectFailed =>
          /\ boot.err.msg = "failed to connect" /\ boot.err.wraps = <<>>
          /\ ~boot.ui /\ panels = <<>> /\ appPc = "none"
          /\ ~ticker.running /\ cycles = <<>> /\ tasks = <<>>
          /\ boot.pc = "exited" => boot.exit > 0

\* C16 witness: a valid configuration, the backend was built, Connect failed
\* and the process has exited.
C16_Witness ==
    /\ ConnectFailed
    /\ boot.pc = "exited"
    /\ boot.backend = "influxdb1"
    /\ Len(boot.cfg.Queries) = 2

\* the identifiers Validate lets through
Supported == {"", "prometheus", "influxdb", "influxdb1", "mock"}

\* C17: with a backend identifier outside the supported set New fails while
\* loading the configuration: no backend is built, Connect is not called, no
\* TUI is created; and createBackend reports an unsupported backend for exactly
\* the identifiers for which Validate does.
C17_UnsupportedRejected ==
    /\ (boot.file = "ok" /\ boot.input.Backend \notin Supported) =>
          /\ boot.backend = "none" /\ boot.connects = 0
          /\ ~boot.ui /\ appPc = "none"
          /\ boot.pc \in {"main", "failed", "exited"}
          /\ boot.pc # "main" =>
                /\ boot.err.wraps = <<"failed to load config", "invalid configuration">>
                /\ boot.err.msg = "unsupported backend"
                /\ boot.err.id = boot.input.Backend
    /\ (createBackend(boot.input).err.msg = "unsupported backend")
          <=> (Validate(boot.input).err.msg = "unsupported backend")

\* C17 witness: a file with an unknown identifier and two well-formed queries
\* was rejected and the process has exited.
C17_Witness ==
    /\ boot.file = "ok"
    /\ boot.input.Backend = "unsupported"
    /\ Len(boot.input.Queries) = 2
    /\ \A k \in 1..2 : boot.input.Queries[k].Name # "" /\ boot.input.Queries[k].Expr # ""
    /\ boot.pc = "exited"
    /\ boot.exit = 1

\* the tasks of cycle c for the query at index i
TasksOf(c, i) == {k \in 1..Len(tasks) : tasks[k].cycle = c /\ tasks[k].idx = i}

\* C18: the initial refresh can start right after Start without a tick, the
\* timer loop starts one cycle per tick it takes, so there are never more
\* cycles than ticks fired plus the initial one, and every cycle has exactly
\* one task per configured query, which queries that query's expression.
C18_CyclePerTick ==
    /\ Len(cycles) <= 1 + (now \div TickInterval)
    /\ (runners.init.pc = "ready" /\ Len(cycles) < MaxCycles) => ENABLED InitialUpdate
    /\ (runners.loop.pc = "select" /\ ticker.pending /\ ~ctxDone
          /\ Len(cycles) < MaxCycles) => ENABLED LoopTick
    /\ \A k \in 1..Len(tasks) :
          /\ tasks[k].cycle \in 1..Len(cycles)
          /\ tasks[k].idx \in 0..(Len(boot.cfg.Queries) - 1)
    /\ \A c \in 1..Len(cycles) : \A i \in 0..(Len(boot.cfg.Queries) - 1) :
          /\ Cardinality(TasksOf(c, i)) = 1
          /\ \A k \in TasksOf(c, i) : tasks[k].expr = boot.cfg.Queries[i + 1].Expr

\* C18 witness: two queries; the initial cycle began at second 0, before any
\* tick, and the first tick, at TickInterval seconds, began the second cycle.
C18_Witness ==
    /\ Len(boot.cfg.Queries) = 2
    /\ Len(cycles) = 2
    /\ cycles[1].start = 0
    /\ cycles[2].start = TickInterval
    /\ runners.init.cycle = 1
    /\ runners.loop.cycle = 2
    /\ Len(tasks) = 4
    /\ ~ctxDone

\* C19: a refresh task that resolves writes the data cell of its query and
\* queues a function, and touches no panel text, footer or view state; panel
\* and footer text change only in a step in which the running UI loop takes a
\* queued function off its queue.
C19_Step ==
    /\ ResolveStep =>
          /\ UNCHANGED <<panels, timeRange, scrollView, appFocus, focusIndex,
                         scrollOffset, visiblePanels>>
          /\ \/ updates' = updates
             \/ \E u \in [index : DOMAIN histories, err : {NoErr, CtxErr} \cup BackendErrs] :
                    updates' = Append(updates, u)
    /\ (panels' # panels \/ timeRange' # timeRange) =>
          /\ uiState = "running"
          /\ updates # <<>>
          /\ updates' = Tail(updates)
          /\ tasks' = tasks

C19_UILoopOnlyWriter == [][C19_Step]_vars

\* C19 witness: with two queries, the UI loop has drawn the graph of one query
\* from a queued update, while the result of the other query is already in its
\* data cell and its panel still shows the initial text, the redraw being queued.
C19_Witness ==
    /\ len(histories) = 2
    /\ last.op = "Draw"
    /\ panels[last.index].kind = "Graph"
    /\ \E j \in DOMAIN histories :
          /\ j # last.index
          /\ Len(histories[j].TimeSeries.Points) > 0
          /\ panels[j] = TextInit
          /\ updates = <<[index |-> j, err |-> NoErr]>>

\* C20: whenever a task resolves with a result, whatever its cycle and whatever
\* tasks of later cycles have done, the series stored for its query becomes the
\* result of that task: there is no sequence guard, the last task to resolve wins.
C20_Step ==
    \A k \in 1..Len(tasks) :
        (ResolveStep /\ tasks'[k].pc # tasks[k].pc) =>
            /\ last'.op = "UpdateTimeSeries" /\ last'.index = tasks[k].idx
            /\ last'.err = NoErr =>
                  /\ last'.series \in BackendSeries(cycles[tasks[k].cycle])
                  /\ histories'[tasks[k].idx].TimeSeries = last'.series
                  /\ histories'[tasks[k].idx].LastError = NoErr

C20_LastResolvedWins == [][C20_Step]_vars

\* C20 witness: for one query the result of the second cycle was stored and
\* drawn, then the task of the first cycle resolved and its older result has
\* replaced the newer one in the data cell.
C20_Witness ==
    /\ Len(cycles) = 2
    /\ cycles[1].start < cycles[2].start
    /\ last.op = "UpdateTimeSeries" /\ last.err = NoErr
    /\ \A k \in 1..Len(tasks) : tasks[k].idx = last.index => tasks[k].pc = "done"
    /\ panels[last.index].kind = "Graph"
    /\ panels[last.index].to = Format(cycles[2].start)
    /\ histories[last.index].TimeSeries.Points[1].Timestamp = cycles[1].start

\* C21: a query in the error state recovers in place.  A successful update
\* with a series for that query clears its LastError, makes the series the
\* stored one and queues a redraw without an error; and a redraw queued by a
\* successful update shows the graph of the stored series, or the no-data
\* text when it holds no point, never the error text.
C21_UpdateStep ==
    LET i == last'.index
    IN  (/\ last'.op = "UpdateTimeSeries" /\ ValidIndex(i)
         /\ last'.err = NoErr /\ ~last'.series.isNil
         /\ histories[i].LastError # NoErr)
            => /\ histories'[i].LastError = NoErr
               /\ histories'[i].TimeSeries = last'.series
               /\ updates' = Append(updates, [index |-> i, err |-> NoErr])

C21_DrawStep ==
    LET i == last'.index
    IN  (/\ last'.op = "Draw" /\ last'.err = NoErr
         /\ ~histories[i].TimeSeries.isNil)
            => /\ ~panicked'
               /\ panels'[i].kind = (IF Len(histories[i].TimeSeries.Points) = 0
                                     THEN "No data available" ELSE "Graph")
               /\ panels'[i].err = NoErr

C21_RecoversInPlace == [][C21_UpdateStep /\ C21_DrawStep]_vars

\* C21 witness: the panel of a query shows the error text of a failure that has
\* been drawn; a successful result with points has then been applied, the
\* error is cleared, the result is stored and its redraw is the one queued.
C21_Witness ==
    /\ last.op = "UpdateTimeSeries" /\ ValidIndex(last.index) /\ last.err = NoErr
    /\ Len(last.series.Points) > 0
    /\ panels[last.index].kind = "Error"
    /\ histories[last.index].LastError = NoErr
    /\ histories[last.index].TimeSeries = last.series
    /\ updates = <<[index |-> last.index, err |-> NoErr]>>

\* C22: an error update leaves the series of its query as it was, and when the
\* redraw it queued is processed the panel of the query shows the text of that
\* error while the redraw changes no stored series and no stored error: the
\* data stored before the failure is still there under the error text.
C22_ErrorUpdateStep ==
    LET i == last'.index
    IN  (last'.op \in UpdateOps /\ ValidIndex(i) /\ last'.err # NoErr)
            => /\ histories'[i].TimeSeries = histories[i].TimeSeries
               /\ updates' = Append(updates, [index |-> i, err |-> last'.err])

C22_ErrorDrawStep ==
    (last'.op = "Draw" /\ last'.err # NoErr)
        => /\ updates # <<>> /\ Head(updates).err = last'.err
           /\ panels' = [panels EXCEPT ![last'.index] = TextError(last'.err)]
           /\ histories' = histories
           /\ ~panicked'

C23_StoreStep ==
    LET i == last'.index
    IN  (/\ last'.op = "UpdateTimeSeries" /\ ValidIndex(i) /\ last'.err = NoErr
         /\ last'.series = MkSeries(<<>>))
            => /\ histories'[i] = [TimeSeries |-> MkSeries(<<>>), LastError |-> NoErr]
               /\ updates' = Append(updates, [index |-> i, err |-> NoErr])
               /\ ~panicked'

C23_RenderStep ==
    LET i == last'.index
    IN  (/\ last'.op = "Draw" /\ last'.err = NoErr
         /\ histories[i].TimeSeries = MkSeries(<<>>))
            => /\ panels' = [panels EXCEPT ![i] = TextNoData]
               /\ panels'[i].values = <<>>
               /\ ~panicked'

C23_EmptyIsNoData == [][C23_StoreStep /\ C23_RenderStep]_vars

\* C23 witness: every update call of the run has been made and drawn; the
\* query drawn last holds an empty series with no error and its panel shows
\* the no-data text.
C23_Witness ==
    /\ last.op = "Draw" /\ last.err = NoErr
    /\ panels[last.index] = TextNoData
    /\ histories[last.index] = [TimeSeries |-> MkSeries(<<>>), LastError |-> NoErr]
    /\ budget = 0
    /\ updates = <<>>

\* C24: focusNext and focusPrev on a non-empty list set the focus to the next
\* or the previous index and never move it to fit the window; only the offset
\* follows.  With the new focus f, the old offset s and the visible count v the
\* new offset is f - v + 1 if f > s + v - 1, f if f < s, and s otherwise, then
\* clamped to 0..max(0, N - v).
C24_Step ==
    LET n == len(panels)
        v == visiblePanels
        s == scrollOffset
        f == IF last'.op = "focusNext"
             THEN (IF focusIndex = n - 1 THEN 0 ELSE focusIndex + 1)
             ELSE (IF focusIndex = 0 THEN n - 1 ELSE focusIndex - 1)
        moved == IF f > s + v - 1 THEN f - v + 1 ELSE IF f < s THEN f ELSE s
        top   == IF n - v > 0 THEN n - v ELSE 0
        clamped == IF moved > top THEN top ELSE IF moved < 0 THEN 0 ELSE moved
    IN  (last'.op \in NavOps /\ n > 0)
            => /\ focusIndex' = f
               /\ scrollOffset' = clamped

C24_OffsetFollowsFocus == [][C24_Step]_vars

\* C24 witness: with more panels than the window shows, focusNext has moved the
\* focus past the right edge of the window and the offset has become
\* f - v + 1, to the right of its initial value and short of its maximum.
C24_Witness ==
    /\ len(panels) > visiblePanels + 1
    /\ last.op = "focusNext"
    /\ focusIndex = visiblePanels
    /\ scrollOffset = focusIndex - visiblePanels + 1
    /\ scrollOffset < len(panels) - visiblePanels

\* C25: the visible-panel count is set at construction from the query count N,
\* to N when N <= 2 and to 3 otherwise, and no key press, update call or redraw
\* changes it.
C25_VisibleFixed ==
    /\ visiblePanels = (IF len(panels) <= 2 THEN len(panels) ELSE 3)
    /\ [][visiblePanels' = visiblePanels]_vars

\* C25 witness: five queries, the window of three has been scrolled by a key
\* press, and an update has been applied and drawn.
C25_Witness ==
    /\ len(panels) = 5
    /\ visiblePanels = 3
    /\ scrollOffset > 0
    /\ last.op = "Draw"
    /\ budget < NavCalls

\* C26: UpdateMetric is an adapter over UpdateTimeSeries.  For every index i,
\* point p and error e, a call UpdateMetric(i, p, nil) takes the TUI to a state
\* that UpdateTimeSeries(i, <series holding only p>, nil) takes it to from the
\* same state, and UpdateMetric(i, p, e) with e non-nil to a state that
\* UpdateTimeSeries(i, nil, e) takes it to.
\* In terms of the state: with a valid index the data cell of query i holds
\* the one-point series and no error, or its old series and the error e, one
\* redraw carrying e is queued, and nothing else changes; with an invalid index
\* nothing changes at all.
C26_Step ==
    LET i == last'.index
        e == last'.err
    IN  last'.op = "UpdateMetric" =>
          /\ Len(last'.series.Points) = 1
          /\ IF e = NoErr
             THEN UpdateTimeSeries(i, MkSeries(<<last'.series.Points[1]>>), NoErr)
             ELSE UpdateTimeSeries(i, NilSeries, e)
          /\ IF ValidIndex(i)
             THEN /\ histories' = [histories EXCEPT ![i] =
                         IF e = NoErr
                         THEN [TimeSeries |-> MkSeries(<<last'.series.Points[1]>>),
                               LastError |-> NoErr]
                         ELSE [TimeSeries |-> histories[i].TimeSeries, LastError |-> e]]
                  /\ updates' = Append(updates, [index |-> i, err |-> e])
                  /\ UNCHANGED <<panels, focusIndex, scrollOffset, visiblePanels,
                                 scrollView, appFocus, timeRange, panicked>>
             ELSE UNCHANGED uiVars

C26_MetricIsAdapter == [][C26_Step]_vars

\* C26 witness: UpdateMetric was called with an error for a query that holds
\* one point; the point is still stored, the error is recorded and a second
\* redraw is queued.
C26_Witness ==
    /\ last.op = "UpdateMetric" /\ ValidIndex(last.index) /\ last.err # NoErr
    /\ histories[last.index].LastError = last.err
    /\ Len(histories[last.index].TimeSeries.Points) = 1
    /\ Len(updates) = 2
    /\ updates[2] = [index |-> last.index, err |-> last.err]

\* C27: once shutdown has cancelled the application context, whose
\* cancellation every cycle context inherits, a backend call that is still in
\* flight returns because of the cancellation and not with the answer of the
\* backend: the outcome it hands on is the error of the cancelled context.  This
\* holds for every backend the factory can select.
C27_Step ==
    \A k \in 1..Len(tasks) :
        (/\ ResolveStep /\ tasks'[k].pc # tasks[k].pc
         /\ ctxDone /\ CtxIsDone(cycles[tasks[k].cycle]))
            => last'.err = CtxErr

C27_CancelReachesCalls == [][C27_Step]_vars

\* C28: the backend instance shared by the per-query tasks is safe for
\* concurrent QueryTimeSeries calls: at no time are two calls inside code that
\* reads and writes state of the client without synchronization, and no call
\* fails because of another one.
C28_ConcurrentCallsSafe ==
    /\ \A j, k \in 1..Len(tasks) :
          (j # k /\ tasks[j].pc \in InRand) => tasks[k].pc \notin InRand
    /\ ~panicked

\* the positions of the queries of the configuration file that lack a name or
\* an expression
OffendingQueries ==
    {k \in 1..Len(boot.input.Queries) :
        boot.input.Queries[k].Name = "" \/ boot.input.Queries[k].Expr = ""}

\* New has returned the error of a rejected configuration
ConfigRejected ==
    /\ boot.pc \in {"failed", "exited"}
    /\ boot.err.wraps = <<"failed to load config", "invalid configuration">>

C30_OutcomeRecorded ==
    (last.op = "UpdateTimeSeries" /\ ValidIndex(last.index)) =>
        /\ histories[last.index].LastError = last.err
        /\ last.err = NoErr => histories[last.index].TimeSeries = last.series

\* C30 witness: an error was recorded for a query and its redraw is still
\* queued; a successful update of the same query has then cleared the error.
C30_Witness ==
    /\ last.op = "UpdateTimeSeries" /\ ValidIndex(last.index) /\ last.err = NoErr
    /\ Len(updates) = 2
    /\ updates[1].index = last.index /\ updates[1].err # NoErr
    /\ histories[last.index].LastError = NoErr

\* C31: whatever the interleaving of concurrent UpdateTimeSeries calls for one
\* index, once every call has finished and every queued redraw has been
\* processed, the panel of a query shows error text if and only if the stored
\* LastError of that query is non-nil.
C31_DisplayAgreesWithStored ==
    (/\ ~panicked
     /\ updates = <<>>
     /\ \A k \in 1..Len(tasks) : tasks[k].pc = "done")
        => \A i \in DOMAIN panels :
              (panels[i].kind = "Error") <=> (histories[i].LastError # NoErr)

\* C32: once Stop has cancelled the application context no refresh cycle is
\* started any more, neither by the timer loop, even with a tick pending from
\* before the ticker was stopped, nor by the initial refresh of Start: no step
\* taken after the cancellation adds a cycle or a QueryTimeSeries call.
C32_Step ==
    ctxDone => (Len(cycles') = Len(cycles) /\ Len(tasks') = Len(tasks))

C32_NoCycleAfterCancel == [][C32_Step]_vars

\* C33: the outcome of the query at position i of the configured list is handed
\* to UpdateTimeSeries with index i, in every cycle and whatever the order in
\* which the tasks resolve: the task that resolves queried the expression of
\* query i, the call carries the index i, and no other query's data cell or
\* redraw is touched.
C33_Step ==
    \A k \in 1..Len(tasks) :
        (ResolveStep /\ tasks'[k].pc # tasks[k].pc) =>
            LET i == tasks[k].idx
            IN  /\ tasks[k].expr = boot.cfg.Queries[i + 1].Expr
                /\ last'.op = "UpdateTimeSeries" /\ last'.index = i
                /\ \A j \in DOMAIN histories : j # i => histories'[j] = histories[j]
                /\ histories'[i].LastError = last'.err
                /\ updates' = Append(updates, [index |-> i, err |-> last'.err])
                /\ panels' = panels

C33_DeliveredToOwnIndex == [][C33_Step]_vars

\* C33 witness: with two queries, the task of the second query resolved before
\* the task of the first query of the same cycle; its result is stored for the
\* second query and the first query's data cell is as it was created.
C33_Witness ==
    /\ len(histories) = 2
    /\ last.op = "UpdateTimeSeries" /\ last.index = 1 /\ last.err = NoErr
    /\ histories[1].TimeSeries = last.series
    /\ histories[0] = [TimeSeries |-> MkSeries(<<>>), LastError |-> NoErr]
    /\ \E k, j \in 1..Len(tasks) :
          /\ tasks[k].cycle = tasks[j].cycle
          /\ tasks[k].idx = 1 /\ tasks[k].pc = "done" /\ tasks[k].expr = "1"
          /\ tasks[j].idx = 0 /\ tasks[j].pc = "querying"

\* C34: UpdateTimeSeries with a valid index i changes the data cell of query i
\* only: the series and the LastError of every other query and the view state
\* (focusIndex, scrollOffset, visiblePanels) are as before; and focusNext and
\* focusPrev change no stored series and no LastError.
C34_Step ==
    /\ (last'.op = "UpdateTimeSeries" /\ ValidIndex(last'.index)) =>
          /\ \A j \in DOMAIN histories :
                j # last'.index => histories'[j] = histories[j]
          /\ DOMAIN histories' = DOMAIN histories
          /\ UNCHANGED <<focusIndex, scrollOffset, visiblePanels>>
    /\ last'.op \in NavOps => histories' = histories

C34_UpdateFrame == [][C34_Step]_vars

\* C34 witness: the view was scrolled and the focus moved, then a result with
\* a point was stored for a query other than the focused one; the focus and
\* the offset are where the key presses left them.
C34_Witness ==
    /\ last.op = "UpdateTimeSeries" /\ ValidIndex(last.index) /\ last.err = NoErr
    /\ Len(histories[last.index].TimeSeries.Points) > 0
    /\ focusIndex > 0 /\ scrollOffset > 0
    /\ last.index # focusIndex
    /\ run.count > 0

\* C35: rendering a panel never changes a stored series: the renderer sorts a
\* copy, so after any number of renders the stored points are in the order in
\* which they arrived; the plotted values are the stored ones in ascending
\* order of time, and the current value shown is the value of a stored point
\* with the greatest timestamp.
C35_Step ==
    LET i   == last'.index
        pts == histories[i].TimeSeries.Points
    IN  last'.op = "Draw" =>
          /\ histories' = histories
          /\ (last'.err = NoErr /\ ~histories[i].TimeSeries.isNil /\ Len(pts) > 0) =>
                /\ panels'[i].kind = "Graph"
                /\ \E k \in 1..Len(pts) :
                      /\ panels'[i].current = pts[k].Value
                      /\ \A j \in 1..Len(pts) : pts[j].Timestamp <= pts[k].Timestamp
                /\ \E p \in Permutations(1..Len(pts)) :
                      /\ \A k \in 1..(Len(pts) - 1) :
                            pts[p[k]].Timestamp <= pts[p[k + 1]].Timestamp
                      /\ panels'[i].values = [k \in 1..Len(pts) |-> pts[p[k]].Value]

C35_RenderKeepsSeries == [][C35_Step]_vars

\* C35 witness: a series of two points arrived with the later point first and
\* with different values; it has been rendered, the panel shows the value of
\* the later point as current, and the stored series is still in arrival order.
C35_Witness ==
    LET i   == last.index
        pts == histories[i].TimeSeries.Points
    IN  /\ last.op = "Draw" /\ last.err = NoErr /\ ~panicked
        /\ Len(pts) = 2
        /\ pts[1].Timestamp > pts[2].Timestamp
        /\ pts[1].Value # pts[2].Value
        /\ panels[i].kind = "Graph"
        /\ panels[i].current = pts[1].Value
        /\ panels[i].values = <<pts[2].Value, pts[1].Value>>
        /\ updates = <<>> /\ budget = 0

\* the scroll view holds exactly visiblePanels panels, those with the indices
\* scrollOffset .. scrollOffset + visiblePanels - 1 in that order
ScrollViewIsWindow ==
    /\ Len(scrollView) = visiblePanels
    /\ \A k \in 1..Len(scrollView) : scrollView[k].panel = scrollOffset + k - 1

\* the positions of the scroll view whose item was added as the focused one
FocusedItems == {k \in 1..Len(scrollView) : scrollView[k].focus}

\* C36 as stated: after construction and after every focus change the scroll
\* view holds exactly the panels of the window, and exactly one of them, the
\* panel at focusIndex, is marked as the focused item.
C36_ScrollViewExact ==
    (last.op \in {"NewTUI"} \cup NavOps) =>
        /\ ScrollViewIsWindow
        /\ \E k \in 1..Len(scrollView) :
              FocusedItems = {k} /\ scrollView[k].panel = focusIndex

\* C36 amended: after construction and after every focus change the scroll
\* view holds exactly the panels of the window; with at least one query exactly
\* one of them, the panel at focusIndex, is marked as the focused item, and
\* with no query the scroll view is empty and nothing is marked.
C36_ScrollViewExactNonEmpty ==
    (last.op \in {"NewTUI"} \cup NavOps) =>
        /\ ScrollViewIsWindow
        /\ IF len(panels) > 0
           THEN \E k \in 1..Len(scrollView) :
                   FocusedItems = {k} /\ scrollView[k].panel = focusIndex
           ELSE scrollView = <<>> /\ visiblePanels = 0

\* C36 witness: with five panels focusPrev has wrapped the focus to the last
\* one; the scroll view holds panels 2, 3 and 4 and the last is the focused item.
C36_Witness ==
    /\ len(panels) = 5
    /\ last.op = "focusPrev"
    /\ focusIndex = 4
    /\ scrollView = <<[panel |-> 2, focus |-> FALSE], [panel |-> 3, focus |-> FALSE],
                      [panel |-> 4, focus |-> TRUE]>>

\* C37: after any sequence of UpdateTimeSeries and UpdateMetric calls with any
\* arguments, a nil series with a nil error included, the stored series of
\* every query is non-nil, and processing a queued redraw never dereferences a
\* missing series.
C37_SeriesNeverNil ==
    /\ \A i \in DOMAIN histories : ~histories[i].TimeSeries.isNil
    /\ ~panicked

\* C38: Stop always terminates.  Whether it is called by the quit key inside
\* the UI loop or by another caller, before or after Start, and whatever
\* refresh tasks are in flight or never return, a caller that has entered the
\* wait inside Stop eventually leaves it and Stop returns.
C38_StopTerminates ==
    \A s \in Stoppers : (stopPc[s] = "waiting") ~> (stopPc[s] = "done")

\* C38 witness: Stop was called by the quit key while a tick was pending; the
\* timer loop has started a cycle after that and has then returned, Stop has
\* completed, and a backend call of that cycle is still in flight.
C38_Witness ==
    /\ stopPc["quit"] = "done"
    /\ runners.loop.pc = "done"
    /\ Len(cycles) = 2
    /\ \E k \in 1..Len(tasks) : tasks[k].cycle = 2 /\ tasks[k].pc = "querying"
    /\ \E k \in 1..Len(tasks) : tasks[k].cycle = 1 /\ tasks[k].pc = "querying"

====
